---- MODULE Spec2Model ----
(***************************************************************************)
(* Model of DateTimeInput (src/src/inputs/DateTimeInput.tsx): the calendar *)
(* mode machine, the deferred handlers, the commit at minute mode and the  *)
(* format resolution.                                                      *)
(***************************************************************************)
EXTENDS Integers, Sequences, FiniteSets, TLC

VARIABLES
  props,          \* this.props
  mode,           \* this.state.mode
  sel,            \* this.state.{year, month, date, hour, minute}
  popupIsClosed,  \* this.state.popupIsClosed
  queue,          \* deferred tasks scheduled through tick, oldest first
  out,            \* the payloads handed to props.onChange, oldest first
  format,         \* the format the last getPicker call resolved
  nEvents,        \* number of deferring user events handled so far
  confirmed,      \* history: the modes in which selections were processed
  raised,         \* history: for each selection task queued, oldest first,
                  \* the mode displayed when the selection was raised
  component,      \* the class of this instance
  last            \* history: the step taken last

vars == <<props, mode, sel, popupIsClosed, queue, out, format, nEvents,
          confirmed, raised, component, last>>

(***************************************************************************)
(* Bounds                                                                  *)
(***************************************************************************)
\* the number of deferring user events (selections, header clicks) handled
MaxEvents == 3

(***************************************************************************)
(* CalendarMode and the two transition tables                              *)
(***************************************************************************)
CalendarMode == {"year", "month", "day", "hour", "minute"}

\* a table whose last entry does not wrap around
nextModeStuck ==
  [m \in CalendarMode |->
     CASE m = "year" -> "month"
       [] m = "month" -> "day"
       [] m = "day" -> "hour"
       [] m = "hour" -> "minute"
       [] m = "minute" -> "minute"]

nextMode ==
  [m \in CalendarMode |->
     CASE m = "year" -> "month"
       [] m = "month" -> "day"
       [] m = "day" -> "hour"
       [] m = "hour" -> "minute"
       [] m = "minute" -> "year"]

getNextMode(currentMode) == nextMode[currentMode]

\* a table that skips the month picker on the way back
prevModeSkip ==
  [m \in CalendarMode |->
     CASE m = "minute" -> "hour"
       [] m = "hour" -> "day"
       [] m = "day" -> "year"
       [] m = "month" -> "year"
       [] m = "year" -> "minute"]

prevMode ==
  [m \in CalendarMode |->
     CASE m = "minute" -> "hour"
       [] m = "hour" -> "day"
       [] m = "day" -> "month"
       [] m = "month" -> "year"
       [] m = "year" -> "minute"]

getPrevMode(currentMode) == prevMode[currentMode]

(***************************************************************************)
(* Props                                                                   *)
(***************************************************************************)
\* an optional string prop: absent, or present with a text (maybe empty)
NotProvided == [present |-> FALSE]
Provided(s) == [present |-> TRUE, text |-> s]

\* JavaScript truthiness of an optional string: undefined and '' are falsy
Truthy(o) == o.present /\ o.text # ""

\* the fixed time-token strings, by timeFormat
TIME_FORMAT == [t \in {"12", "24"} |-> IF t = "24" THEN "HH:mm" ELSE "hh:mm A"]

StartModes == {"year", "month", "day"}

defaultProps ==
  [ value            |-> NotProvided,
    dateFormat       |-> "DD-MM-YYYY",
    timeFormat       |-> "24",
    startMode        |-> "day",
    divider          |-> " ",
    preserveViewMode |-> TRUE,
    closable         |-> FALSE,
    dateTimeFormat   |-> NotProvided ]

\* the format inputs the format specification draws from
DateFormats == {"DD-MM-YYYY", "YYYY/MM/DD"}
Dividers == {" ", "T"}
TimeFormats == {"12", "24"}
DateTimeFormats == {NotProvided, Provided(""), Provided("YYYY-MM-DD HH:mm")}

\* a composition that leaves the divider out
getDateTimeFormatNoDivider(p) ==
  IF Truthy(p.dateTimeFormat)
    THEN p.dateTimeFormat.text
    ELSE p.dateFormat \o TIME_FORMAT[p.timeFormat]

getDateTimeFormat(p) ==
  IF Truthy(p.dateTimeFormat)
    THEN p.dateTimeFormat.text
    ELSE p.dateFormat \o p.divider \o TIME_FORMAT[p.timeFormat]

(***************************************************************************)
(* Values                                                                  *)
(***************************************************************************)
\* an absent number field
undefined == -1

noSelection ==
  [year |-> undefined, month |-> undefined, date |-> undefined,
   hour |-> undefined, minute |-> undefined]

\* the values the pickers hand to onChange: a full one and one that
\* carries the year only
PickerValues ==
  { [year |-> 2024, month |-> 2, date |-> 5, hour |-> 14, minute |-> 30],
    [year |-> 2025, month |-> undefined, date |-> undefined,
     hour |-> undefined, minute |-> undefined] }

FullValue ==
  [year |-> 2024, month |-> 2, date |-> 5, hour |-> 14, minute |-> 30]

\* the clock: the date moment falls back to for leading absent units
now == [year |-> 2026, month |-> 10, date |-> 1, hour |-> 9, minute |-> 15]

\* moment({year, month, date, hour, minute}): leading absent units are
\* taken from the clock, absent units after a present one start their unit
moment(value) ==
  LET y == value.year # undefined
      m == y \/ value.month # undefined
      d == m \/ value.date # undefined
  IN [year   |-> IF y THEN value.year ELSE now.year,
      month  |-> IF value.month # undefined THEN value.month
                 ELSE IF y THEN 0 ELSE now.month,
      date   |-> IF value.date # undefined THEN value.date
                 ELSE IF m THEN 1 ELSE now.date,
      hour   |-> IF value.hour # undefined THEN value.hour ELSE 0,
      minute |-> IF value.minute # undefined THEN value.minute ELSE 0]

\* moment#isValid: every unit lies in its range
isValid(m) ==
  /\ m.month \in 0..11
  /\ m.date \in 1..31
  /\ m.hour \in 0..23
  /\ m.minute \in 0..59

\* moment(value).format(fmt): the text that renders value under fmt
momentFormat(value, fmt) == Provided(<<moment(value), fmt>>)

\* a text that renders no date under any format
Unparseable == Provided(<<noSelection, "">>)

\* the empty string
emptyText == Provided(<<>>)

\* moment(text, fmt): the moment a text parses to under fmt; an invalid one
\* when the text is no rendering of a date under fmt
invalidMoment == [noSelection EXCEPT !.month = 12]

momentParse(text, fmt) ==
  IF text.present /\ Len(text.text) = 2 /\ text.text[2] = fmt
     /\ isValid(text.text[1])
    THEN text.text[1]
    ELSE invalidMoment

\* parseValue(value, format, localization): the moment, or absent
absent == noSelection

parseValue(value, fmt) ==
  IF value.present /\ isValid(momentParse(value, fmt))
    THEN momentParse(value, fmt)
    ELSE absent

\* the five state fields a parsed moment gives; all undefined when absent
parsedFields(parsed) ==
  IF parsed # absent
    THEN [year |-> parsed.year, month |-> parsed.month, date |-> parsed.date,
          hour |-> parsed.hour, minute |-> parsed.minute]
    ELSE noSelection

(***************************************************************************)
(* The deferred task queue                                                 *)
(***************************************************************************)
\* tick(f, ...args): f runs later, after everything scheduled before it
tick(q, task) == Append(q, task)

\* the record of a step: the handler that ran, the one that ran before it,
\* the mode it found, whether it called closePopup, whether it emitted
Step(op, m, closed, emitted) ==
  [op |-> op, before |-> last.op, mode |-> m, closed |-> closed,
   emitted |-> emitted]

(***************************************************************************)
(* Construction                                                            *)
(***************************************************************************)
Init ==
  /\ props \in { [defaultProps EXCEPT !.startMode = s,
                                      !.preserveViewMode = pv,
                                      !.closable = c] :
                   s \in StartModes, pv \in BOOLEAN, c \in BOOLEAN }
  /\ mode = props.startMode
  /\ sel = parsedFields(parseValue(props.value, getDateTimeFormat(props)))
  /\ popupIsClosed = TRUE
  /\ queue = <<>>
  /\ out = <<>>
  /\ format = getDateTimeFormat(props)
  /\ nEvents = 0
  /\ confirmed = <<>>
  /\ raised = <<>>
  /\ component = "DateTimeInput"
  /\ last = [op |-> "constructor", before |-> "constructor",
             mode |-> props.startMode, closed |-> FALSE, emitted |-> FALSE]

(***************************************************************************)
(* Handlers that run inside the triggering event                           *)
(***************************************************************************)
\* the picker's onChange
handleSelect(value) ==
  /\ nEvents < MaxEvents
  /\ queue' = tick(queue, [kind |-> "handleSelectUndelayed", value |-> value])
  /\ nEvents' = nEvents + 1
  /\ raised' = Append(raised, mode)
  /\ last' = Step("handleSelect", mode, FALSE, FALSE)
  /\ UNCHANGED <<props, mode, sel, popupIsClosed, out, format, confirmed,
                 component>>

\* a header click that retreats on the spot
switchToPrevModeSync ==
  /\ nEvents < MaxEvents
  /\ mode' = getPrevMode(mode)
  /\ nEvents' = nEvents + 1
  /\ last' = Step("switchToPrevMode", mode, FALSE, FALSE)
  /\ UNCHANGED <<props, sel, popupIsClosed, queue, out, format, confirmed,
                 raised, component>>

\* the picker's onHeaderClick
switchToPrevMode ==
  /\ nEvents < MaxEvents
  /\ queue' = tick(queue, [kind |-> "switchToPrevModeUndelayed"])
  /\ nEvents' = nEvents + 1
  /\ last' = Step("switchToPrevMode", mode, FALSE, FALSE)
  /\ UNCHANGED <<props, mode, sel, popupIsClosed, out, format, confirmed,
                 raised, component>>

\* a focus handler that resets the mode unconditionally
onFocusAlways ==
  /\ mode' = props.startMode
  /\ last' = Step("onFocus", mode, FALSE, FALSE)
  /\ UNCHANGED <<props, sel, popupIsClosed, queue, out, format, nEvents,
                 confirmed,
                 raised, component>>

onFocus ==
  /\ mode' = IF ~props.preserveViewMode THEN props.startMode ELSE mode
  /\ last' = Step("onFocus", mode, FALSE, FALSE)
  /\ UNCHANGED <<props, sel, popupIsClosed, queue, out, format, nEvents,
                 confirmed,
                 raised, component>>

openPopup ==
  /\ popupIsClosed' = FALSE
  /\ last' = Step("openPopup", mode, FALSE, FALSE)
  /\ UNCHANGED <<props, mode, sel, queue, out, format, nEvents, confirmed,
                 raised, component>>

closePopup ==
  /\ popupIsClosed' = TRUE
  /\ last' = Step("closePopup", mode, TRUE, FALSE)
  /\ UNCHANGED <<props, mode, sel, queue, out, format, nEvents, confirmed,
                 raised, component>>

(***************************************************************************)
(* Deferred tasks: the oldest one runs, to completion                      *)
(***************************************************************************)
Runs(kind) == queue # <<>> /\ Head(queue).kind = kind

\* an advance that also swallows the transitions queued right behind it
switchToNextModeUndelayedCoalesce ==
  /\ Runs("switchToNextModeUndelayed")
  /\ mode' = getNextMode(mode)
  /\ queue' = SelectSeq(Tail(queue),
                        LAMBDA t : t.kind = "handleSelectUndelayed")
  /\ last' = Step("switchToNextModeUndelayed", mode, FALSE, FALSE)
  /\ UNCHANGED <<props, sel, popupIsClosed, out, format, nEvents, confirmed,
                 raised, component>>

\* an advance that schedules itself again
switchToNextModeUndelayedAgain ==
  /\ Runs("switchToNextModeUndelayed")
  /\ mode' = getNextMode(mode)
  /\ queue' = tick(Tail(queue), [kind |-> "switchToNextModeUndelayed"])
  /\ last' = Step("switchToNextModeUndelayed", mode, FALSE, FALSE)
  /\ UNCHANGED <<props, sel, popupIsClosed, out, format, nEvents, confirmed,
                 raised, component>>

switchToNextModeUndelayed ==
  /\ Runs("switchToNextModeUndelayed")
  /\ mode' = getNextMode(mode)
  /\ queue' = Tail(queue)
  /\ last' = Step("switchToNextModeUndelayed", mode, FALSE, FALSE)
  /\ UNCHANGED <<props, sel, popupIsClosed, out, format, nEvents, confirmed,
                 raised, component>>

switchToPrevModeUndelayed ==
  /\ Runs("switchToPrevModeUndelayed")
  /\ mode' = getPrevMode(mode)
  /\ queue' = Tail(queue)
  /\ last' = Step("switchToPrevModeUndelayed", mode, FALSE, FALSE)
  /\ UNCHANGED <<props, sel, popupIsClosed, out, format, nEvents, confirmed,
                 raised, component>>

\* the selection task, parameterised by its three decisions:
\*   closes   - line 436, closePopup is called
\*   emits    - line 443, props.onChange is invoked
\*   advances - line 455, switchToNextMode is called
\* The task runs from the queue with no state update pending, so
\* this.state.mode (lines 436, 455) and prevState.mode (line 441) are the
\* same mode, which the task itself never sets.
SelectTask(closes, emits, advances) ==
  LET value == Head(queue).value
      outValue == momentFormat(value, getDateTimeFormat(props))
  IN /\ popupIsClosed' = IF closes THEN TRUE ELSE popupIsClosed
     /\ out' = IF emits
                 THEN Append(out, [props EXCEPT !.value = outValue])
                 ELSE out
     /\ sel' = [year |-> value.year, month |-> value.month,
                date |-> value.date, hour |-> value.hour,
                minute |-> value.minute]
     /\ queue' = IF advances
                   THEN tick(Tail(queue), [kind |-> "switchToNextModeUndelayed"])
                   ELSE Tail(queue)
     /\ confirmed' = Append(confirmed, mode)
     /\ last' = Step("handleSelectUndelayed", mode, closes, emits)
     /\ raised' = Tail(raised)
     /\ UNCHANGED <<props, mode, format, nEvents, component>>

\* a selection task that advances from every mode, minute included
handleSelectUndelayedAlwaysAdvance ==
  /\ Runs("handleSelectUndelayed")
  /\ SelectTask(props.closable /\ mode = "minute", mode = "minute", TRUE)

\* a selection task that closes a closable popup in every mode
handleSelectUndelayedAlwaysClose ==
  /\ Runs("handleSelectUndelayed")
  /\ SelectTask(props.closable, mode = "minute", mode # "minute")

\* a selection task that emits in every mode
handleSelectUndelayedAlwaysEmit ==
  /\ Runs("handleSelectUndelayed")
  /\ SelectTask(props.closable /\ mode = "minute", TRUE, mode # "minute")

\* a selection task that keeps a field the value does not carry
handleSelectUndelayedMerge ==
  /\ Runs("handleSelectUndelayed")
  /\ LET value == Head(queue).value
         keep(new, old) == IF new # undefined THEN new ELSE old
     IN /\ popupIsClosed' = IF props.closable /\ mode = "minute"
                              THEN TRUE ELSE popupIsClosed
        /\ out' = IF mode = "minute"
                    THEN Append(out,
                           [props EXCEPT !.value =
                              momentFormat(value, getDateTimeFormat(props))])
                    ELSE out
        /\ sel' = [year   |-> keep(value.year, sel.year),
                   month  |-> keep(value.month, sel.month),
                   date   |-> keep(value.date, sel.date),
                   hour   |-> keep(value.hour, sel.hour),
                   minute |-> keep(value.minute, sel.minute)]
        /\ queue' = IF mode # "minute"
                      THEN tick(Tail(queue),
                                [kind |-> "switchToNextModeUndelayed"])
                      ELSE Tail(queue)
        /\ confirmed' = Append(confirmed, mode)
        /\ last' = Step("handleSelectUndelayed", mode,
                        props.closable /\ mode = "minute", mode = "minute")
        /\ raised' = Tail(raised)
        /\ UNCHANGED <<props, mode, format, nEvents, component>>

handleSelectUndelayed ==
  /\ Runs("handleSelectUndelayed")
  /\ SelectTask(props.closable /\ mode = "minute", mode = "minute",
                mode # "minute")

Next ==
  \/ \E value \in PickerValues : handleSelect(value)
  \/ switchToPrevMode
  \/ onFocus
  \/ openPopup
  \/ closePopup
  \/ handleSelectUndelayed
  \/ switchToNextModeUndelayed
  \/ switchToPrevModeUndelayed

Spec == Init /\ [][Next]_vars

(***************************************************************************)
(* The same machine with the scheduling of the deferred tasks: a task that *)
(* is queued is run by the event loop, whatever the user does meanwhile    *)
(***************************************************************************)
RunTask ==
  \/ handleSelectUndelayed
  \/ switchToNextModeUndelayed
  \/ switchToPrevModeUndelayed

\* the scheduling does not depend on closable, and the first and the last
\* mode of the cycle are the start modes where the chain of advances is the
\* longest and where no advance is scheduled
InitLive ==
  /\ Init
  /\ props.startMode \in {"year", "minute"}
  /\ props.closable = defaultProps.closable

SpecLive == InitLive /\ [][Next]_vars /\ WF_vars(RunTask)

(***************************************************************************)
(* Format resolution under changing format props                           *)
(***************************************************************************)
FormatProps ==
  { [defaultProps EXCEPT !.dateFormat = df, !.divider = dv,
                         !.timeFormat = tf, !.dateTimeFormat = dtf] :
      df \in DateFormats, dv \in Dividers, tf \in TimeFormats,
      dtf \in DateTimeFormats }

InitFormat ==
  /\ props \in FormatProps
  /\ mode = props.startMode
  /\ sel = parsedFields(parseValue(props.value, getDateTimeFormat(props)))
  /\ popupIsClosed = TRUE
  /\ queue = <<>>
  /\ out = <<>>
  /\ format = getDateTimeFormat(props)
  /\ nEvents = 0
  /\ confirmed = <<>>
  /\ raised = <<>>
  /\ component = "DateTimeInput"
  /\ last = [op |-> "constructor", before |-> "constructor",
             mode |-> props.startMode, closed |-> FALSE, emitted |-> FALSE]

\* a render: getPicker resolves the format for the picker it builds
getPicker ==
  /\ format' = getDateTimeFormat(props)
  /\ last' = Step("getPicker", mode, FALSE, FALSE)
  /\ UNCHANGED <<props, mode, sel, popupIsClosed, queue, out, nEvents,
                 confirmed,
                 raised, component>>

\* a prop update that drops the selection when the new value fails to parse
componentDidUpdateClearing(nextProps) ==
  /\ props' = nextProps
  /\ sel' = IF props.value # nextProps.value
              THEN parsedFields(parseValue(nextProps.value,
                                           getDateTimeFormat(nextProps)))
              ELSE sel
  /\ last' = Step("componentDidUpdate", mode, FALSE, FALSE)
  /\ UNCHANGED <<mode, popupIsClosed, queue, out, format, nEvents,
                 confirmed, raised, component>>

\* a prop update that also sends the picker back to startMode
componentDidUpdateResetMode(nextProps) ==
  /\ props' = nextProps
  /\ sel' = LET parsed == parseValue(nextProps.value,
                                    getDateTimeFormat(nextProps))
            IN IF props.value # nextProps.value /\ parsed # absent
                 THEN parsedFields(parsed)
                 ELSE sel
  /\ mode' = IF props.value # nextProps.value THEN nextProps.startMode
             ELSE mode
  /\ last' = Step("componentDidUpdate", mode, FALSE, FALSE)
  /\ UNCHANGED <<popupIsClosed, queue, out, format, nEvents,
                 confirmed, raised, component>>

\* the component has updated; nextProps are the props of the update (the
\* same as before when only state changed), prevProps the props before
componentDidUpdate(nextProps) ==
  /\ props' = nextProps
  /\ sel' = LET parsed == parseValue(nextProps.value,
                                    getDateTimeFormat(nextProps))
            IN IF props.value # nextProps.value /\ parsed # absent
                 THEN parsedFields(parsed)
                 ELSE sel
  /\ last' = Step("componentDidUpdate", mode, FALSE, FALSE)
  /\ UNCHANGED <<mode, popupIsClosed, queue, out, format, nEvents,
                 confirmed, raised, component>>

NextFormat ==
  \/ getPicker
  \/ \E nextProps \in FormatProps : componentDidUpdate(nextProps)
  \/ switchToPrevMode
  \/ switchToPrevModeUndelayed
  \/ openPopup
  \/ closePopup

SpecFormat == InitFormat /\ [][NextFormat]_vars

(***************************************************************************)
(* Text edits, value props and MonthInput                                  *)
(***************************************************************************)
\* the texts typed into the input field, and the texts passed as value
InputTexts ==
  {momentFormat(FullValue, getDateTimeFormat(defaultProps)), Unparseable}

ValueProps == {NotProvided} \cup InputTexts

\* a text edit that emits the parsed text, rendered again
onInputValueChangeReformat(value) ==
  LET parsedValue == momentParse(value, getDateTimeFormat(props))
  IN /\ nEvents < MaxEvents
     /\ sel' = IF isValid(parsedValue) THEN parsedFields(parsedValue) ELSE sel
     /\ out' = Append(out,
                [props EXCEPT !.value =
                   IF isValid(parsedValue)
                     THEN momentFormat(parsedValue, getDateTimeFormat(props))
                     ELSE emptyText])
     /\ nEvents' = nEvents + 1
     /\ last' = Step("onInputValueChange", mode, FALSE, TRUE)
     /\ UNCHANGED <<props, mode, popupIsClosed, queue, format, confirmed,
                    raised, component>>

\* a text edit that hands the caller the new value alone
onInputValueChangeBare(value) ==
  LET parsedValue == momentParse(value, getDateTimeFormat(props))
  IN /\ nEvents < MaxEvents
     /\ sel' = IF isValid(parsedValue) THEN parsedFields(parsedValue) ELSE sel
     /\ out' = Append(out, [value |-> value])
     /\ nEvents' = nEvents + 1
     /\ last' = Step("onInputValueChange", mode, FALSE, TRUE)
     /\ UNCHANGED <<props, mode, popupIsClosed, queue, format, confirmed,
                    raised, component>>

\* the input field's onChange
onInputValueChange(value) ==
  LET parsedValue == momentParse(value, getDateTimeFormat(props))
  IN /\ nEvents < MaxEvents
     /\ sel' = IF isValid(parsedValue) THEN parsedFields(parsedValue) ELSE sel
     /\ out' = Append(out, [props EXCEPT !.value = value])
     /\ nEvents' = nEvents + 1
     /\ last' = Step("onInputValueChange", mode, FALSE, TRUE)
     /\ UNCHANGED <<props, mode, popupIsClosed, queue, format, confirmed,
                    raised, component>>

\* MonthInput
MonthInputDefaultProps ==
  [ value        |-> NotProvided,
    dateFormat   |-> "MMM",
    closable     |-> FALSE,
    localization |-> NotProvided ]

MonthInputProps ==
  { [MonthInputDefaultProps EXCEPT !.dateFormat = df, !.closable = c,
                                   !.localization = l] :
      df \in {"MMM", "MM"}, c \in BOOLEAN,
      l \in {NotProvided, Provided("fr")} }

\* the months the month picker hands to onChange; 12 is past December
PickedMonths == {0, 11, 12}

\* moment#locale(l).format(fmt)
localeFormat(date, fmt, localization) ==
  IF Truthy(localization)
    THEN Provided(<<date, fmt, localization.text>>)
    ELSE Provided(<<date, fmt>>)

\* the effects of MonthInput.handleSelect, in the order they happen
MonthInputSelect(output, effects) ==
  /\ nEvents < MaxEvents
  /\ out' = Append(out, [props EXCEPT !.value = output])
  /\ popupIsClosed' = IF "closePopup" \in {effects[i] : i \in DOMAIN effects}
                        THEN TRUE ELSE popupIsClosed
  /\ nEvents' = nEvents + 1
  /\ last' = [op |-> "MonthInput.handleSelect", before |-> last.op,
              mode |-> mode,
              closed |-> "closePopup" \in {effects[i] : i \in DOMAIN effects},
              emitted |-> TRUE, effects |-> effects]
  /\ UNCHANGED <<props, mode, sel, queue, format, confirmed, raised,
                 component>>

monthOutput(value) ==
  LET date == moment([noSelection EXCEPT !.month = value.month])
  IN IF isValid(date)
       THEN localeFormat(date, props.dateFormat, props.localization)
       ELSE emptyText

\* a month selection that closes the popup before it notifies
MonthInputHandleSelectCloseFirst(value) ==
  MonthInputSelect(monthOutput(value),
                   IF props.closable THEN <<"closePopup", "onChange">>
                                     ELSE <<"onChange">>)

MonthInputHandleSelect(value) ==
  MonthInputSelect(monthOutput(value),
                   IF props.closable THEN <<"onChange", "closePopup">>
                                     ELSE <<"onChange">>)

\* a construction that starts at day whatever startMode says
InitInputsAtDay ==
  /\ \/ /\ component = "DateTimeInput"
        /\ props \in { [defaultProps EXCEPT !.value = v, !.startMode = s,
                                            !.preserveViewMode = pv] :
                         v \in ValueProps, s \in {"year", "day"},
                         pv \in BOOLEAN }
        /\ mode = "day"
        /\ sel = parsedFields(parseValue(props.value,
                                         getDateTimeFormat(props)))
        /\ format = getDateTimeFormat(props)
     \/ /\ component = "MonthInput"
        /\ props \in MonthInputProps
        /\ mode = "month"
        /\ sel = noSelection
        /\ format = props.dateFormat
  /\ popupIsClosed = TRUE
  /\ queue = <<>>
  /\ out = <<>>
  /\ nEvents = 0
  /\ confirmed = <<>>
  /\ raised = <<>>
  /\ last = [op |-> "constructor", before |-> "constructor",
             mode |-> mode, closed |-> FALSE, emitted |-> FALSE]

InitInputs ==
  /\ \/ /\ component = "DateTimeInput"
        /\ props \in { [defaultProps EXCEPT !.value = v, !.startMode = s,
                                            !.preserveViewMode = pv] :
                         v \in ValueProps, s \in {"year", "day"},
                         pv \in BOOLEAN }
        /\ mode = props.startMode
        /\ sel = parsedFields(parseValue(props.value,
                                         getDateTimeFormat(props)))
        /\ format = getDateTimeFormat(props)
     \/ /\ component = "MonthInput"
        /\ props \in MonthInputProps
        /\ mode = "month"
        /\ sel = noSelection
        /\ format = props.dateFormat
  /\ popupIsClosed = TRUE
  /\ queue = <<>>
  /\ out = <<>>
  /\ nEvents = 0
  /\ confirmed = <<>>
  /\ raised = <<>>
  /\ last = [op |-> "constructor", before |-> "constructor",
             mode |-> mode, closed |-> FALSE, emitted |-> FALSE]

NextInputs ==
  \/ component = "DateTimeInput" /\ handleSelect(FullValue)
  \/ component = "DateTimeInput" /\ switchToPrevMode
  \/ component = "DateTimeInput" /\ onFocus
  \/ openPopup
  \/ closePopup
  \/ handleSelectUndelayed
  \/ switchToNextModeUndelayed
  \/ switchToPrevModeUndelayed
  \/ component = "DateTimeInput"
       /\ \E value \in InputTexts : onInputValueChange(value)
  \/ component = "DateTimeInput"
       /\ \E value \in ValueProps :
            componentDidUpdate([props EXCEPT !.value = value])
  \/ component = "MonthInput"
       /\ \E month \in PickedMonths :
            MonthInputHandleSelect([year |-> now.year, month |-> month])

SpecInputs == InitInputs /\ [][NextInputs]_vars

(***************************************************************************)
(* The cycle of modes, by position                                         *)
(***************************************************************************)
ModeOrder == <<"year", "month", "day", "hour", "minute">>

Index(m) == CHOOSE i \in 1..Len(ModeOrder) : ModeOrder[i] = m

\* m moved k steps forward (k < 0: backward) around the cycle
Shift(m, k) == ModeOrder[((Index(m) - 1 + k) % Len(ModeOrder)) + 1]

RECURSIVE NextN(_, _)
NextN(n, m) == IF n = 0 THEN m ELSE NextN(n - 1, getNextMode(m))

RECURSIVE PrevN(_, _)
PrevN(n, m) == IF n = 0 THEN m ELSE PrevN(n - 1, getPrevMode(m))

\* advances minus retreats among the queued tasks
RECURSIVE Net(_)
Net(q) ==
  IF q = <<>> THEN 0
  ELSE Net(Tail(q))
       + (CASE Head(q).kind = "switchToNextModeUndelayed" -> 1
            [] Head(q).kind = "switchToPrevModeUndelayed" -> -1
            [] OTHER -> 0)

Transitions == {"switchToNextModeUndelayed", "switchToPrevModeUndelayed"}

(***************************************************************************)
(* C1: from every mode, five applications of getNextMode return to it, and *)
(* so do five applications of getPrevMode; one to four applications of     *)
(* either never do.                                                        *)
(***************************************************************************)
ModeCycleClosure ==
  /\ NextN(5, mode) = mode
  /\ PrevN(5, mode) = mode
  /\ \A k \in 1..4 : NextN(k, mode) # mode /\ PrevN(k, mode) # mode

\* an advance task has wrapped the mode around from minute to year
ModeCycleClosureWitness ==
  /\ last.op = "switchToNextModeUndelayed"
  /\ last.mode = "minute"
  /\ mode = "year"

(***************************************************************************)
(* C2: the forward order is year, month, day, hour, minute, year; the two  *)
(* tables are inverse to each other at every mode; a retreat task run      *)
(* directly after an advance task, or the converse, restores the mode the  *)
(* first of the two found.                                                 *)
(***************************************************************************)
BackwardReversesForward ==
  /\ [](/\ \A i \in 1..4 : getNextMode(ModeOrder[i]) = ModeOrder[i + 1]
        /\ getNextMode(ModeOrder[5]) = ModeOrder[1]
        /\ getPrevMode(getNextMode(mode)) = mode
        /\ getNextMode(getPrevMode(mode)) = mode)
  /\ [][/\ (last.op = "switchToNextModeUndelayed" /\ switchToPrevModeUndelayed)
             => mode' = last.mode
        /\ (last.op = "switchToPrevModeUndelayed" /\ switchToNextModeUndelayed)
             => mode' = last.mode]_vars

\* a retreat task has just run directly after an advance task
BackwardReversesForwardWitness ==
  /\ last.op = "switchToPrevModeUndelayed"
  /\ last.before = "switchToNextModeUndelayed"
  /\ mode = getPrevMode(last.mode)

(***************************************************************************)
(* C3: a selection task that runs in minute mode leaves the mode at        *)
(* minute, schedules nothing (the queue only loses the task), and appends  *)
(* exactly one payload, carrying the formatted selection, to the output.   *)
(***************************************************************************)
MinuteSelectionDoesNotAdvance ==
  [][(handleSelectUndelayed /\ mode = "minute")
       => /\ mode' = "minute"
          /\ queue' = Tail(queue)
          /\ Len(out') = Len(out) + 1
          /\ SubSeq(out', 1, Len(out)) = out
          /\ out'[Len(out')].value
               = momentFormat(Head(queue).value, getDateTimeFormat(props))]_vars

\* a selection task has run in minute mode and emitted
MinuteSelectionDoesNotAdvanceWitness ==
  /\ last.op = "handleSelectUndelayed"
  /\ last.mode = "minute"
  /\ last.emitted
  /\ mode = "minute"
  /\ out # <<>>

\* Scenario 2 has played out: started at day, three events, all of them
\* selections, processed in day, hour and minute mode, and nothing is
\* queued after the task that ran last
TaskOps == Transitions \cup {"handleSelectUndelayed"}

ScenarioTwoDone ==
  /\ props.startMode = "day"
  /\ nEvents = 3
  /\ confirmed = <<"day", "hour", "minute">>
  /\ queue = <<>>
  /\ last.op \in TaskOps

(***************************************************************************)
(* C4: Scenario 2. The machine starts at day and exactly three selections  *)
(* are raised and processed, in day, hour and minute mode; when the last   *)
(* task has run, one payload has been emitted (by the minute selection)    *)
(* and the mode is minute.                                                 *)
(***************************************************************************)
ScenarioTwoStaysAtMinute ==
  ScenarioTwoDone => (mode = "minute" /\ Len(out) = 1)

\* the claim as stated: the mode has cycled on to year
ScenarioTwoCyclesToYear ==
  ScenarioTwoDone => (mode = "year" /\ Len(out) = 1)

ScenarioTwoWitness ==
  /\ ScenarioTwoDone
  /\ last.op = "handleSelectUndelayed"
  /\ last.emitted
  /\ mode = "minute"

(***************************************************************************)
(* C5: a selection task that runs in year, month, day or hour mode emits   *)
(* nothing, leaves the mode alone and schedules exactly one advance task   *)
(* behind the tasks already queued; when that advance is the very next     *)
(* step, the mode becomes the one after the mode the selection ran in.     *)
(***************************************************************************)
SelectionSchedulesOneAdvance ==
  [][/\ (handleSelectUndelayed /\ mode # "minute")
          => /\ out' = out
             /\ mode' = mode
             /\ queue' = Append(Tail(queue),
                                [kind |-> "switchToNextModeUndelayed"])
     /\ (/\ last.op = "handleSelectUndelayed"
         /\ last.mode # "minute"
         /\ switchToNextModeUndelayed)
          => mode' = Shift(last.mode, 1)]_vars

\* the advance scheduled by a selection in a coarser mode has just run
SelectionSchedulesOneAdvanceWitness ==
  /\ last.op = "switchToNextModeUndelayed"
  /\ last.before = "handleSelectUndelayed"
  /\ last.mode = "day"
  /\ mode = "hour"
  /\ out = <<>>

(***************************************************************************)
(* C6: in every reachable state, the selection task that ran last called   *)
(* closePopup if and only if closable is set and that task emitted.        *)
(***************************************************************************)
CommitAndCloseTogether ==
  last.op = "handleSelectUndelayed"
    => (last.closed <=> (props.closable /\ last.emitted))

\* a minute selection closed and emitted while a transition is still queued
CommitAndCloseTogetherWitness ==
  /\ last.op = "handleSelectUndelayed"
  /\ last.closed
  /\ last.emitted
  /\ popupIsClosed
  /\ queue # <<>>

(***************************************************************************)
(* C7: after onFocus with preserveViewMode false the mode is startMode,    *)
(* whatever it was; with preserveViewMode true, onFocus, openPopup and     *)
(* closePopup leave the mode as they found it.                             *)
(***************************************************************************)
FocusReset ==
  /\ (last.op = "onFocus" /\ ~props.preserveViewMode)
       => mode = props.startMode
  /\ (last.op \in {"onFocus", "openPopup", "closePopup"}
      /\ props.preserveViewMode)
       => mode = last.mode

\* Scenario 5: focus found the mode at minute and reset it to day
FocusResetWitness ==
  /\ last.op = "onFocus"
  /\ ~props.preserveViewMode
  /\ props.startMode = "day"
  /\ last.mode = "minute"
  /\ mode = "day"

(***************************************************************************)
(* C8: handleSelect and switchToPrevMode only enqueue one task: mode,      *)
(* selection fields, popup and output are as before when they return. The  *)
(* switchToNextMode call inside a selection task likewise enqueues one     *)
(* task and leaves the mode alone. The mode changes only in a step that    *)
(* runs a queued transition task (or in onFocus); fields and output change *)
(* only in a step that runs a queued selection task.                       *)
(***************************************************************************)
DeferredTransitions ==
  [][/\ ((\E value \in PickerValues : handleSelect(value)) \/ switchToPrevMode)
          => /\ Len(queue') = Len(queue) + 1
             /\ SubSeq(queue', 1, Len(queue)) = queue
             /\ UNCHANGED <<mode, sel, popupIsClosed, out>>
     /\ handleSelectUndelayed
          => /\ mode' = mode
             /\ Len(queue') \in {Len(queue) - 1, Len(queue)}
     /\ mode' # mode
          => \/ onFocus
             \/ (Runs("switchToNextModeUndelayed") /\ queue' = Tail(queue))
             \/ (Runs("switchToPrevModeUndelayed") /\ queue' = Tail(queue))
     /\ (sel' # sel \/ out' # out \/ (popupIsClosed' /\ ~popupIsClosed))
          => (closePopup \/ handleSelectUndelayed)]_vars

\* a header click has returned: the retreat is queued and the mode is as
\* the click found it
DeferredTransitionsWitness ==
  /\ last.op = "switchToPrevMode"
  /\ mode = last.mode
  /\ queue # <<>>
  /\ queue[Len(queue)].kind = "switchToPrevModeUndelayed"

(***************************************************************************)
(* C9: a transition task consumes exactly itself from the queue and moves  *)
(* the mode one step from the mode the previous task left, so the mode     *)
(* shifted by the net count of the transitions still queued is the same    *)
(* before and after it runs; when the queue has drained, the mode is the   *)
(* start mode shifted by advances minus retreats.                          *)
(***************************************************************************)
NoLostModeUpdates ==
  [][(switchToNextModeUndelayed \/ switchToPrevModeUndelayed)
       => /\ queue' = Tail(queue)
          /\ Shift(mode', Net(queue')) = Shift(mode, Net(queue))
          /\ mode' = Shift(mode, Net(<<Head(queue)>>))]_vars

\* an advance has run while the next advance was already queued behind it
NoLostModeUpdatesWitness ==
  /\ last.op = "switchToNextModeUndelayed"
  /\ Runs("switchToNextModeUndelayed")
  /\ mode = Shift(last.mode, 1)

\* the composition the format falls back to
Composite(p) == p.dateFormat \o p.divider \o TIME_FORMAT[p.timeFormat]

(***************************************************************************)
(* C10: after getPicker has resolved the format, the format is the         *)
(* dateTimeFormat prop when that prop is a non-empty string, and           *)
(* dateFormat + divider + TIME_FORMAT[timeFormat] when it is absent or     *)
(* empty; resolving it writes no state.                                    *)
(***************************************************************************)
FormatResolution ==
  /\ [](last.op = "getPicker"
          => format = IF props.dateTimeFormat.present
                           /\ props.dateTimeFormat.text # ""
                        THEN props.dateTimeFormat.text
                        ELSE Composite(props))
  /\ [][getPicker => UNCHANGED <<props, mode, sel, popupIsClosed, queue,
                                 out>>]_vars

\* the claim as stated: a provided dateTimeFormat is always returned
FormatResolutionAsStated ==
  /\ [](last.op = "getPicker"
          => format = IF props.dateTimeFormat.present
                        THEN props.dateTimeFormat.text
                        ELSE Composite(props))
  /\ [][getPicker => UNCHANGED <<props, mode, sel, popupIsClosed, queue,
                                 out>>]_vars

\* the format was resolved by composition under a non-default divider
FormatResolutionWitness ==
  /\ last.op = "getPicker"
  /\ ~props.dateTimeFormat.present
  /\ props.divider = "T"
  /\ props.timeFormat = "12"
  /\ format = "YYYY/MM/DDThh:mm A"

(***************************************************************************)
(* C11: every step that emits appends one payload that has exactly the     *)
(* fields of the props of the moment, equal to the props in every field    *)
(* but value, and whose value is a text: the formatted selection for a     *)
(* minute commit, one of the typed texts for a text edit, the month text   *)
(* or the empty string for a MonthInput selection.                         *)
(***************************************************************************)
PayloadIsPropsWithValue ==
  [][out' # out
       => /\ Len(out') = Len(out) + 1
          /\ SubSeq(out', 1, Len(out)) = out
          /\ LET payload == out'[Len(out')]
             IN /\ DOMAIN payload = DOMAIN props
                /\ \A field \in DOMAIN props \ {"value"} :
                     payload[field] = props[field]
                /\ payload.value.present
                /\ handleSelectUndelayed
                     => payload.value
                          = momentFormat(Head(queue).value,
                                         getDateTimeFormat(props))
                /\ (/\ component = "DateTimeInput"
                    /\ \E value \in InputTexts : onInputValueChange(value))
                     => payload.value \in InputTexts]_vars

\* a minute commit has replaced the unparseable value the props carry
PayloadIsPropsWithValueWitness ==
  /\ last.op = "handleSelectUndelayed"
  /\ last.emitted
  /\ props.value = Unparseable
  /\ out # <<>>
  /\ out[Len(out)] = [props EXCEPT !.value =
                        momentFormat(FullValue, getDateTimeFormat(props))]

(***************************************************************************)
(* C12: right after construction of a DateTimeInput the mode is the        *)
(* startMode prop (day by default), the popup is closed, and the five      *)
(* fields are those of the date the value prop renders when it parses,     *)
(* and all undefined when the value is absent or does not parse.           *)
(***************************************************************************)
InitialState ==
  (last.op = "constructor" /\ component = "DateTimeInput")
    => /\ defaultProps.startMode = "day"
       /\ mode = props.startMode
       /\ popupIsClosed
       /\ queue = <<>> /\ out = <<>>
       /\ props.value = momentFormat(FullValue, getDateTimeFormat(props))
            => sel = FullValue
       /\ props.value \in {NotProvided, Unparseable}
            => sel = noSelection

\* constructed with startMode year and a value that parses
InitialStateWitness ==
  /\ last.op = "constructor"
  /\ component = "DateTimeInput"
  /\ props.startMode = "year"
  /\ mode = "year"
  /\ popupIsClosed
  /\ props.value.present
  /\ sel = FullValue

(***************************************************************************)
(* C13: whenever a selection task emits, the selection it processes was    *)
(* raised while the displayed mode was minute.                             *)
(***************************************************************************)
CommitProvenance ==
  [][(handleSelectUndelayed /\ out' # out) => Head(raised) = "minute"]_vars

\* two selections are the only events so far, both were processed in the
\* same mode, and every task they led to has run. With preserveViewMode set
\* and no header click, only the first one's advance could have changed the
\* mode between them, and it runs before any selection raised after it was
\* queued: so the second was raised while the first was still queued, and
\* both were raised in the mode displayed at the start.
TwoSelectionsInOneMode ==
  /\ props.preserveViewMode
  /\ nEvents = 2
  /\ Len(confirmed) = 2
  /\ confirmed[1] = confirmed[2]
  /\ confirmed[1] = props.startMode
  /\ confirmed[1] # "minute"
  /\ queue = <<>>
  /\ last.op \in TaskOps

(***************************************************************************)
(* C14: when two selections were raised while the same mode m was          *)
(* displayed and the queue has drained, the mode is the one after m.       *)
(***************************************************************************)
NoGranularitySkipped ==
  TwoSelectionsInOneMode => mode = Shift(confirmed[1], 1)

(***************************************************************************)
(* C15: a text edit appends exactly one payload, whose value is the typed  *)
(* text itself, in the step of the edit and defers nothing; the five       *)
(* fields become those of the date the text renders when it parses under   *)
(* the effective format, and stay as they were when it does not.           *)
(***************************************************************************)
TextEdit ==
  [][\A value \in InputTexts :
       (component = "DateTimeInput" /\ onInputValueChange(value))
         => /\ out' = Append(out, [props EXCEPT !.value = value])
            /\ queue' = queue
            /\ UNCHANGED <<mode, popupIsClosed, props>>
            /\ value = momentFormat(FullValue, getDateTimeFormat(props))
                 => sel' = FullValue
            /\ value = Unparseable => sel' = sel]_vars

\* an unparseable text was emitted as typed and the fields set before it
\* are still there
TextEditWitness ==
  /\ last.op = "onInputValueChange"
  /\ out # <<>>
  /\ out[Len(out)].value = Unparseable
  /\ sel = FullValue

(***************************************************************************)
(* C16: when the parent passes new props, the five fields become those of  *)
(* the date the new value renders if the value differs from the previous   *)
(* one and parses; they stay as they were if the value is the same, is     *)
(* absent or does not parse.                                               *)
(***************************************************************************)
ValuePropChange ==
  [][\A value \in ValueProps :
       (/\ component = "DateTimeInput"
        /\ componentDidUpdate([props EXCEPT !.value = value]))
         => /\ (/\ value # props.value
                /\ value = momentFormat(FullValue, getDateTimeFormat(props)))
                 => sel' = FullValue
            /\ (value = props.value \/ value \in {NotProvided, Unparseable})
                 => sel' = sel
            /\ UNCHANGED <<mode, popupIsClosed, queue, out>>]_vars

\* the value prop changed to a text that does not parse and the fields of
\* the previous selection are still there
ValuePropChangeWitness ==
  /\ last.op = "componentDidUpdate"
  /\ props.value = Unparseable
  /\ sel = FullValue

(***************************************************************************)
(* C17: in a DateTimeInput the mode changes only in a step that runs an    *)
(* advance task, runs a retreat task, or is onFocus with preserveViewMode  *)
(* false; a selection task, a text edit, a prop update, openPopup and      *)
(* closePopup leave the mode as it was.                                    *)
(***************************************************************************)
ModeFrame ==
  [][component = "DateTimeInput"
       => /\ mode' # mode
               => \/ switchToNextModeUndelayed
                  \/ switchToPrevModeUndelayed
                  \/ (onFocus /\ ~props.preserveViewMode)
          /\ (\/ handleSelectUndelayed
              \/ \E value \in InputTexts : onInputValueChange(value)
              \/ \E value \in ValueProps :
                   componentDidUpdate([props EXCEPT !.value = value])
              \/ openPopup
              \/ closePopup)
               => mode' = mode]_vars

\* a prop update with a new value ran away from startMode and the mode is
\* as the update found it
ModeFrameWitness ==
  /\ component = "DateTimeInput"
  /\ last.op = "componentDidUpdate"
  /\ props.value.present
  /\ sel = FullValue
  /\ mode = last.mode
  /\ mode = "minute"

\* the value that carries the year only
YearOnlyValue == [noSelection EXCEPT !.year = 2025]

(***************************************************************************)
(* C18: a selection task sets each of the five fields to the field of the  *)
(* same name of the value it processes, whatever the fields were; a field  *)
(* the value does not carry becomes undefined.                             *)
(***************************************************************************)
SelectionReplacesAllFields ==
  [][handleSelectUndelayed
       => LET value == Head(queue).value
          IN /\ sel'.year = value.year
             /\ sel'.month = value.month
             /\ sel'.date = value.date
             /\ sel'.hour = value.hour
             /\ sel'.minute = value.minute
             /\ DOMAIN sel' = {"year", "month", "date", "hour", "minute"}]_vars

\* after a retreat to minute the full value was committed, then the value
\* that carries the year only was processed: month, date, hour and minute
\* are undefined again
SelectionReplacesAllFieldsWitness ==
  /\ last.op = "handleSelectUndelayed"
  /\ last.before = "handleSelectUndelayed"
  /\ Len(confirmed) = 2
  /\ Len(out) = 2
  /\ out[1].value = momentFormat(FullValue, getDateTimeFormat(props))
  /\ sel = YearOnlyValue
  /\ sel.month = undefined

(***************************************************************************)
(* C19: a task leaves the queue only by running, from the head; a          *)
(* selection or a header click schedules one task, a selection task at     *)
(* most one (its advance), a transition task none; so the tasks of one     *)
(* selection are at most two. With the event loop running queued tasks, a  *)
(* non-empty queue leads to an empty one, and once the user events have    *)
(* stopped the queue stays empty and the mode stops changing.              *)
(***************************************************************************)
Quiescence ==
  /\ [][/\ queue' # queue
             => \/ (RunTask /\ queue' = Tail(queue))
                \/ (handleSelectUndelayed
                    /\ \E task \in {[kind |-> "switchToNextModeUndelayed"]} :
                         queue' = Append(Tail(queue), task))
                \/ (/\ (\E value \in PickerValues : handleSelect(value))
                       \/ switchToPrevMode
                    /\ Len(queue') = Len(queue) + 1
                    /\ SubSeq(queue', 1, Len(queue)) = queue)
        /\ (switchToNextModeUndelayed \/ switchToPrevModeUndelayed)
             => queue' = Tail(queue)]_vars
  /\ (queue # <<>>) ~> (queue = <<>>)
  /\ <>[](queue = <<>>)
  /\ <>[][mode' = mode]_vars

\* both tasks of a selection have run and nothing is queued
QuiescenceWitness ==
  /\ last.op = "switchToNextModeUndelayed"
  /\ last.before = "handleSelectUndelayed"
  /\ queue = <<>>
  /\ nEvents = MaxEvents

(***************************************************************************)
(* C20: a month selection handled by MonthInput appends exactly one        *)
(* payload in the step of the selection and defers nothing; the payload    *)
(* is the props with value the picked month rendered with dateFormat, or   *)
(* the empty text when the month is not one of the twelve; the selection   *)
(* closes the popup exactly when closable is set, after the notification.  *)
(***************************************************************************)
MonthSelection ==
  [][\A month \in PickedMonths :
       (/\ component = "MonthInput"
        /\ MonthInputHandleSelect([year |-> now.year, month |-> month]))
         => LET payload == out'[Len(out')]
            IN /\ Len(out') = Len(out) + 1
               /\ SubSeq(out', 1, Len(out)) = out
               /\ queue' = queue
               /\ [payload EXCEPT !.value = props.value] = props
               /\ IF month \in 0..11
                    THEN /\ payload.value.present
                         /\ payload.value.text[1]
                              = moment([noSelection EXCEPT !.month = month])
                         /\ payload.value.text[2] = props.dateFormat
                    ELSE payload.value = emptyText
               /\ last'.closed <=> props.closable
               /\ IF props.closable
                    THEN /\ popupIsClosed'
                         /\ last'.effects = <<"onChange", "closePopup">>
                    ELSE /\ popupIsClosed' = popupIsClosed
                         /\ last'.effects = <<"onChange">>]_vars

\* a month past December was picked, then, with the popup open again, a
\* valid month: the second selection notified and then closed the popup
MonthSelectionWitness ==
  /\ component = "MonthInput"
  /\ props.closable
  /\ last.op = "MonthInput.handleSelect"
  /\ last.before = "openPopup"
  /\ Len(out) = 2
  /\ out[1].value = emptyText
  /\ out[2].value = localeFormat(moment([noSelection EXCEPT !.month = 11]),
                                 props.dateFormat, props.localization)
  /\ popupIsClosed

====
